---- MODULE Spec2Model ----
(***************************************************************************)
(* Model of www/react-data-module/src/data/classes/Build.ts: the Build     *)
(* data class (constructor, update, toObject) and the result-code helpers  *)
(* (getBuildOrStepResults, results2class, results2text).                   *)
(*                                                                         *)
(* JavaScript values are tagged records, so that null, undefined, numbers, *)
(* booleans and strings stay distinct and comparable.  A JavaScript object *)
(* is a TLA+ function from its keys to values; a key that is absent is not *)
(* in the DOMAIN and reads as undefined.                                   *)
(***************************************************************************)
EXTENDS Integers, Sequences, FiniteSets, TLC

VARIABLES build, applied, op, ret, entity, unknownResults, pulse

vars == <<build, applied, op, ret, entity, unknownResults, pulse>>

-----------------------------------------------------------------------------
(* Bounds of the model *)

MaxId == 2
MaxTime == 1

-----------------------------------------------------------------------------
(* JavaScript values *)

Null == [t |-> "null"]
Undefined == [t |-> "undefined"]
Num(n) == [t |-> "number", v |-> n]
Bool(b) == [t |-> "boolean", v |-> b]
Str(s) == [t |-> "string", v |-> s]
Obj(kvs) == [t |-> "object", v |-> kvs]

\* object.key: undefined when the key is absent
Get(object, key) == IF key \in DOMAIN object THEN object[key] ELSE Undefined

\* a ?? b
Coalesce(a, b) == IF a = Null \/ a = Undefined THEN b ELSE a

\* `${v}` for the values a template literal meets here
TemplateString(v) == IF v = Undefined THEN "undefined" ELSE v.v

-----------------------------------------------------------------------------
(* Result codes and the label table *)

SUCCESS == 0
WARNINGS == 1
FAILURE == 2
SKIPPED == 3
EXCEPTION == 4
RETRY == 5
CANCELLED == 6
PENDING == 1000
UNKNOWN == 1001

intToResult ==
  (SUCCESS :> "SUCCESS") @@ (WARNINGS :> "WARNINGS") @@ (FAILURE :> "FAILURE") @@
  (SKIPPED :> "SKIPPED") @@ (EXCEPTION :> "EXCEPTION") @@ (RETRY :> "RETRY") @@
  (CANCELLED :> "CANCELLED") @@ (PENDING :> "PENDING") @@ (UNKNOWN :> "UNKNOWN")

\* key in intToResult, for a number key
InTable(key) == key.t = "number" /\ key.v \in DOMAIN intToResult

\* intToResult[key]: undefined when the key has no entry
Lookup(key) == IF InTable(key) THEN Str(intToResult[key.v]) ELSE Undefined

-----------------------------------------------------------------------------
(* Build: update and toObject *)

\* the instance before the constructor has run update: no field is assigned
Blank ==
  [buildid |-> Undefined, number |-> Undefined, builderid |-> Undefined,
   buildrequestid |-> Undefined, workerid |-> Undefined, masterid |-> Undefined,
   started_at |-> Undefined, complete_at |-> Undefined, complete |-> Undefined,
   state_string |-> Undefined, results |-> Undefined, properties |-> Undefined]

\* a slip: the properties of the previous record survive a record without any
update_merge(this, object) ==
  [this EXCEPT
     !.buildid = Get(object, "buildid"),
     !.number = Get(object, "number"),
     !.builderid = Get(object, "builderid"),
     !.buildrequestid = Get(object, "buildrequestid"),
     !.workerid = Get(object, "workerid"),
     !.masterid = Get(object, "masterid"),
     !.started_at = Get(object, "started_at"),
     !.complete_at = Get(object, "complete_at"),
     !.complete = Get(object, "complete"),
     !.results = Get(object, "results"),
     !.state_string = Get(object, "state_string"),
     !.properties = Coalesce(Get(object, "properties"),
                             Coalesce(this.properties, Obj({})))]

\* a slip: the completion flag is not refreshed
update_nocomplete(this, object) ==
  [this EXCEPT
     !.buildid = Get(object, "buildid"),
     !.number = Get(object, "number"),
     !.builderid = Get(object, "builderid"),
     !.buildrequestid = Get(object, "buildrequestid"),
     !.workerid = Get(object, "workerid"),
     !.masterid = Get(object, "masterid"),
     !.started_at = Get(object, "started_at"),
     !.complete_at = Get(object, "complete_at"),
     !.complete = Coalesce(this.complete, Get(object, "complete")),
     !.results = Get(object, "results"),
     !.state_string = Get(object, "state_string"),
     !.properties = Coalesce(Get(object, "properties"), Obj({}))]

update(this, object) ==
  [this EXCEPT
     !.buildid = Get(object, "buildid"),
     !.number = Get(object, "number"),
     !.builderid = Get(object, "builderid"),
     !.buildrequestid = Get(object, "buildrequestid"),
     !.workerid = Get(object, "workerid"),
     !.masterid = Get(object, "masterid"),
     !.started_at = Get(object, "started_at"),
     !.complete_at = Get(object, "complete_at"),
     !.complete = Get(object, "complete"),
     !.results = Get(object, "results"),
     !.state_string = Get(object, "state_string"),
     !.properties = Coalesce(Get(object, "properties"), Obj({}))]

\* a slip: the completion time is read from the start time
toObject_wrongfield(this) ==
  [buildid |-> this.buildid, number |-> this.number, builderid |-> this.builderid,
   buildrequestid |-> this.buildrequestid, workerid |-> this.workerid,
   masterid |-> this.masterid, started_at |-> this.started_at,
   complete_at |-> this.started_at, complete |-> this.complete,
   state_string |-> this.state_string, results |-> this.results,
   properties |-> this.properties]

toObject(this) ==
  [buildid |-> this.buildid, number |-> this.number, builderid |-> this.builderid,
   buildrequestid |-> this.buildrequestid, workerid |-> this.workerid,
   masterid |-> this.masterid, started_at |-> this.started_at,
   complete_at |-> this.complete_at, complete |-> this.complete,
   state_string |-> this.state_string, results |-> this.results,
   properties |-> this.properties]

-----------------------------------------------------------------------------
(* Result classification *)

\* a slip: the PENDING rule is tried before the recognized-code rule
getBuildOrStepResults_pendingFirst(buildOrStep, unknown) ==
  IF buildOrStep = Null THEN unknown
  ELSE IF Get(buildOrStep, "complete") = Bool(FALSE)
          /\ Coalesce(Get(buildOrStep, "started_at"), Num(0)).v > 0
       THEN Num(PENDING)
  ELSE IF Get(buildOrStep, "results") # Null /\ InTable(Get(buildOrStep, "results"))
       THEN Get(buildOrStep, "results")
  ELSE unknown

\* a slip: a start time of 0 counts as started
getBuildOrStepResults_geq(buildOrStep, unknown) ==
  IF buildOrStep = Null THEN unknown
  ELSE IF Get(buildOrStep, "results") # Null /\ InTable(Get(buildOrStep, "results"))
       THEN Get(buildOrStep, "results")
  ELSE IF Get(buildOrStep, "complete") = Bool(FALSE)
          /\ Coalesce(Get(buildOrStep, "started_at"), Num(0)).v >= 0
       THEN Num(PENDING)
  ELSE unknown

\* a slip: any non-null results is returned, recognized or not
getBuildOrStepResults_nocheck(buildOrStep, unknown) ==
  IF buildOrStep = Null THEN unknown
  ELSE IF Get(buildOrStep, "results") # Null
       THEN Get(buildOrStep, "results")
  ELSE IF Get(buildOrStep, "complete") = Bool(FALSE)
          /\ Coalesce(Get(buildOrStep, "started_at"), Num(0)).v > 0
       THEN Num(PENDING)
  ELSE unknown

\* a slip: a null entity yields the UNKNOWN constant instead of the argument
getBuildOrStepResults_nullUnknown(buildOrStep, unknown) ==
  IF buildOrStep = Null THEN Num(UNKNOWN)
  ELSE IF Get(buildOrStep, "results") # Null /\ InTable(Get(buildOrStep, "results"))
       THEN Get(buildOrStep, "results")
  ELSE IF Get(buildOrStep, "complete") = Bool(FALSE)
          /\ Coalesce(Get(buildOrStep, "started_at"), Num(0)).v > 0
       THEN Num(PENDING)
  ELSE unknown

getBuildOrStepResults(buildOrStep, unknown) ==
  IF buildOrStep = Null THEN unknown
  ELSE IF Get(buildOrStep, "results") # Null /\ InTable(Get(buildOrStep, "results"))
       THEN Get(buildOrStep, "results")
  ELSE IF Get(buildOrStep, "complete") = Bool(FALSE)
          /\ Coalesce(Get(buildOrStep, "started_at"), Num(0)).v > 0
       THEN Num(PENDING)
  ELSE unknown

\* a slip: the pulse is appended whatever the classification
results2class_alwaysPulse(buildOrStep, p) ==
  LET results == getBuildOrStepResults(buildOrStep, Num(UNKNOWN))
      base == "results_" \o TemplateString(Lookup(results))
  IN  IF p # Null THEN Str(base \o " " \o TemplateString(p)) ELSE Str(base)

results2class(buildOrStep, p) ==
  LET results == getBuildOrStepResults(buildOrStep, Num(UNKNOWN))
      base == "results_" \o TemplateString(Lookup(results))
  IN  IF results = Num(PENDING) /\ p # Null
      THEN Str(base \o " " \o TemplateString(p))
      ELSE Str(base)

\* a slip: the text is taken from the classification, not from results alone
results2text_classified(objWithResults) ==
  IF objWithResults # Null
  THEN Lookup(getBuildOrStepResults(objWithResults, Num(UNKNOWN)))
  ELSE Str("...")

results2text(objWithResults) ==
  IF objWithResults # Null
     /\ Get(objWithResults, "results") # Null
     /\ InTable(Get(objWithResults, "results"))
  THEN Lookup(Get(objWithResults, "results"))
  ELSE Str("...")

-----------------------------------------------------------------------------
(* Inputs *)

Ids == 1..MaxId
Times == 0..MaxTime

\* the eleven mandatory fields of the input record shape
\* (all ids derive from the one seed a; the builder, worker and master ids run
\* against the build id, so every id field differs between two seeds)
Mandatory(a, brid, sa, ca, c, r) ==
  [buildid |-> Num(a), number |-> Num(a), builderid |-> Num(MaxId + 1 - a),
   buildrequestid |-> brid, workerid |-> Num(MaxId + 1 - a), masterid |-> Num(MaxId - a),
   started_at |-> Num(sa), complete_at |-> ca, complete |-> Bool(c),
   state_string |-> Str(IF c THEN "finished" ELSE "building"), results |-> r]

PropertyValues == {Obj({}), Obj({<<"owner", "me">>})}

BuildResults == {Null, Num(SUCCESS), Num(FAILURE)}

\* raw records without a properties key
RawWithout ==
  {Mandatory(a, brid, sa, ca, c, r) :
     a \in Ids, brid \in {Null, Num(MaxId)}, sa \in Times,
     ca \in {Null, Num(MaxTime)}, c \in BOOLEAN, r \in BuildResults}

\* raw records with a properties key
RawWith == {m @@ ("properties" :> p) : m \in RawWithout, p \in PropertyValues}

RawRecords == RawWithout \cup RawWith

\* the values a results field is tried with: every key of the label table, and
\* the numbers next to them that are not keys
ResultCodes ==
  ((SUCCESS - 1)..(CANCELLED + 1)) \cup ((PENDING - 1)..(UNKNOWN + 1))

EntityResults == {Null} \cup {Num(c) : c \in ResultCodes}

\* a build or step as the classifier sees it, without a start time
EntityNoStart ==
  {[results |-> r, complete |-> Bool(c)] : r \in EntityResults, c \in BOOLEAN}

Entities ==
  {Null} \cup EntityNoStart
  \cup {e @@ ("started_at" :> s) : e \in EntityNoStart,
                                   s \in {Null} \cup {Num(n) : n \in Times}}

Fallbacks == {Num(SUCCESS - 1), Num(SUCCESS), Num(PENDING), Num(UNKNOWN), Num(UNKNOWN + 1)}

Pulses == {Null, Str("pulse"), Str("")}

-----------------------------------------------------------------------------
(* The Build instance: construction, update, toObject *)

Init ==
  /\ \E object \in RawRecords :
       /\ build = update(Blank, object)
       /\ applied = object
  /\ op = "constructor"
  /\ ret = Undefined
  /\ entity = Null
  /\ unknownResults = Num(UNKNOWN)
  /\ pulse = Null

Update(object) ==
  /\ build' = update(build, object)
  /\ applied' = object
  /\ op' = "update"
  /\ ret' = Undefined
  /\ UNCHANGED <<entity, unknownResults, pulse>>

ToObject ==
  /\ ret' = toObject(build)
  /\ op' = "toObject"
  /\ UNCHANGED <<build, applied, entity, unknownResults, pulse>>

Next ==
  \/ \E object \in RawRecords : Update(object)
  \/ ToObject

Spec == Init /\ [][Next]_vars

-----------------------------------------------------------------------------
(* The result helpers, applied to inputs drawn at the start *)

InitResults ==
  /\ build = update(Blank, Mandatory(MaxId, Null, MaxTime, Null, FALSE, Null))
  /\ applied = Mandatory(MaxId, Null, MaxTime, Null, FALSE, Null)
  /\ op = "none"
  /\ ret = Undefined
  /\ entity \in Entities
  /\ unknownResults \in Fallbacks
  /\ pulse \in Pulses

GetBuildOrStepResults ==
  /\ ret' = getBuildOrStepResults(entity, unknownResults)
  /\ op' = "getBuildOrStepResults"
  /\ UNCHANGED <<build, applied, entity, unknownResults, pulse>>

Results2Class ==
  /\ ret' = results2class(entity, pulse)
  /\ op' = "results2class"
  /\ UNCHANGED <<build, applied, entity, unknownResults, pulse>>

Results2Text ==
  /\ ret' = results2text(entity)
  /\ op' = "results2text"
  /\ UNCHANGED <<build, applied, entity, unknownResults, pulse>>

NextResults ==
  \/ GetBuildOrStepResults
  \/ Results2Class
  \/ Results2Text

SpecResults == InitResults /\ [][NextResults]_vars

-----------------------------------------------------------------------------
(* Properties of the result helpers, checked under SpecResults *)

ServerCodes == SUCCESS..CANCELLED

Labels ==
  {"SUCCESS", "WARNINGS", "FAILURE", "SKIPPED", "EXCEPTION", "RETRY",
   "CANCELLED", "PENDING", "UNKNOWN"}

\* the start time of an entity, an absent or null one counting as 0
StartOf(e) ==
  IF "started_at" \in DOMAIN e /\ e.started_at.t = "number" THEN e.started_at.v ELSE 0

InProgress(e) == e.complete = Bool(FALSE) /\ StartOf(e) > 0

Classified == op = "getBuildOrStepResults"

\* C1: for a non-null entity whose results is one of the server codes 0..6,
\* getBuildOrStepResults returns that code, whatever complete, started_at and
\* the fallback are.
C1_RecognizedCodeWins ==
  (Classified /\ entity # Null /\ entity.results \in {Num(c) : c \in ServerCodes})
    => ret = entity.results

C1_Witness ==
  /\ Classified /\ entity # Null
  /\ entity.results = Num(FAILURE)
  /\ InProgress(entity)
  /\ unknownResults = Num(UNKNOWN)
  /\ ret = Num(FAILURE)

\* C2: for a non-null entity whose results is null, getBuildOrStepResults
\* returns PENDING when complete is false and started_at > 0 (absent or null
\* counting as 0), and the fallback in every other case.
C2_NullResults ==
  (Classified /\ entity # Null /\ entity.results = Null)
    => ret = IF InProgress(entity) THEN Num(PENDING) ELSE unknownResults

C2_Witness ==
  /\ Classified /\ entity # Null
  /\ entity.results = Null
  /\ entity.complete = Bool(FALSE)
  /\ "started_at" \in DOMAIN entity /\ entity.started_at = Num(0)
  /\ unknownResults = Num(SUCCESS)
  /\ ret = Num(SUCCESS)

Unrecognized(e) ==
  e.results # Null /\ e.results.v \notin DOMAIN intToResult

\* C3 as stated: for a non-null entity whose results is a number that is not a
\* key of the label table, getBuildOrStepResults returns the fallback for
\* every value of complete and started_at.
C3_Original ==
  (Classified /\ entity # Null /\ Unrecognized(entity))
    => ret = unknownResults

\* C3 amended: for such an entity getBuildOrStepResults returns PENDING when
\* complete is false and started_at > 0, and the fallback otherwise.
C3_UnrecognizedCode ==
  (Classified /\ entity # Null /\ Unrecognized(entity))
    => ret = IF InProgress(entity) THEN Num(PENDING) ELSE unknownResults

C3_Witness ==
  /\ Classified /\ entity # Null
  /\ Unrecognized(entity)
  /\ InProgress(entity)
  /\ unknownResults = Num(UNKNOWN)
  /\ ret = Num(PENDING)

\* C4: getBuildOrStepResults(null, X) returns X for every fallback X, result
\* code or not.
C4_NullEntity ==
  (Classified /\ entity = Null) => ret = unknownResults

C4_Witness ==
  /\ Classified /\ entity = Null
  /\ unknownResults.v \notin DOMAIN intToResult
  /\ ret = unknownResults

\* C8: for a non-null entity, results2class returns "results_" followed by
\* the label of getBuildOrStepResults(entity, UNKNOWN), which is one of the
\* nine labels, followed by a space and the pulse exactly when that
\* classification is PENDING and the pulse is non-null.
C8_ClassName ==
  (op = "results2class" /\ entity # Null) =>
    LET r == getBuildOrStepResults(entity, Num(UNKNOWN))
    IN  /\ r.v \in DOMAIN intToResult
        /\ intToResult[r.v] \in Labels
        /\ ret = Str("results_" \o intToResult[r.v]
                     \o (IF r.v = PENDING /\ pulse # Null
                         THEN " " \o pulse.v ELSE ""))

C8_Witness ==
  /\ op = "results2class" /\ entity # Null
  /\ entity.results = Null /\ InProgress(entity)
  /\ pulse = Str("pulse")
  /\ ret = Str("results_PENDING pulse")

\* C9: results2text returns the label of entity.results when results is
\* non-null and a key of the label table, and "..." in every other case; it
\* reads no field other than results.
C9_Text ==
  (op = "results2text") =>
    ret = IF entity # Null /\ entity.results # Null
             /\ entity.results.v \in DOMAIN intToResult
          THEN Str(intToResult[entity.results.v])
          ELSE Str("...")

C9_Witness ==
  /\ op = "results2text" /\ entity # Null
  /\ entity.results = Null /\ InProgress(entity)
  /\ ret = Str("...")

\* C10: with fallback UNKNOWN, getBuildOrStepResults returns PENDING only for
\* a non-null entity that is not complete and has started, and never returns
\* PENDING or UNKNOWN by copying it from the results field.
C10_PendingOnlyInProgress ==
  (Classified /\ unknownResults = Num(UNKNOWN)) =>
    /\ ret = Num(PENDING) => (entity # Null /\ InProgress(entity))
    /\ (entity # Null /\ ret \in {Num(PENDING), Num(UNKNOWN)})
         => entity.results \notin {Num(PENDING), Num(UNKNOWN)}

-----------------------------------------------------------------------------
(* Properties of the Build instance, checked under Spec *)

MandatoryFields ==
  {"buildid", "number", "builderid", "buildrequestid", "workerid", "masterid",
   "started_at", "complete_at", "complete", "state_string", "results"}

\* the record a Build is expected to hold after object was applied
WithDefault(object) ==
  IF "properties" \in DOMAIN object THEN object
  ELSE object @@ ("properties" :> Obj({}))

\* C5 as stated: toObject() of a Build returns the record it was built from,
\* with the same keys and values, properties present or not.
C5_Original ==
  (op = "toObject") => ret = applied

\* C5 amended: toObject() returns the record when the record has a
\* properties key, and the record extended with an empty properties otherwise.
C5_RoundTrip ==
  (op = "toObject") => ret = WithDefault(applied)

C5_Witness ==
  /\ op = "toObject"
  /\ "properties" \in DOMAIN applied
  /\ applied.properties = Obj({})
  /\ ret = applied

\* C6: after construction and any updates the twelve tracked fields hold the
\* values of the last record applied, properties being empty when the record
\* has none; applying the record already applied changes nothing.
C6_LastRecord ==
  /\ [](/\ DOMAIN build = MandatoryFields \cup {"properties"}
        /\ \A f \in MandatoryFields : build[f] = applied[f]
        /\ build.properties =
             (IF "properties" \in DOMAIN applied THEN applied.properties ELSE Obj({})))
  /\ [][(op' = "update" /\ applied' = applied) => build' = build]_vars

C6_Witness ==
  /\ op = "update"
  /\ "properties" \notin DOMAIN applied
  /\ build.properties = Obj({})
  /\ build.complete = Bool(TRUE)

Consistent(b) ==
  /\ b.complete_at # Null => b.complete = Bool(TRUE)
  /\ b.results # Null => b.complete = Bool(TRUE)

\* C7 as stated: in every reachable Build state complete_at and results are
\* non-null only when complete is true.
C7_Original == Consistent(build)

\* C7 amended: the Build state satisfies that rule exactly when the last
\* record applied does; update copies the three fields and checks nothing.
C7_Consistency == Consistent(build) <=> Consistent(applied)

C7_Witness ==
  /\ op = "update"
  /\ Consistent(applied) /\ Consistent(build)
  /\ build.complete = Bool(TRUE) /\ build.results # Null /\ build.complete_at # Null

====
